---- MODULE Spec2Model ----
(***************************************************************************)
(* State-machine model of Scratch3ARduinoBlocks (src/src/.eslintrc.js):    *)
(* the per-target arduino state, its colour/size arithmetic, the legacy    *)
(* hue/shade layer, the trail and stamp blocks and the renderer calls      *)
(* they issue.                                                             *)
(*                                                                         *)
(* Numbers.  A JavaScript number is modelled as a fixed-point value: an    *)
(* integer count of quanta of 1/Scale.  Num(n) is the literal n.  A        *)
(* product or quotient of two numbers is rounded down to the quantum; a    *)
(* product or quotient by an integer literal is computed on the integers.  *)
(*                                                                         *)
(* Objects.  State objects and their nested arduinoAttributes objects      *)
(* live in two heaps (stateHeap, attrHeap) and are addressed by            *)
(* reference, so that aliasing between targets is expressible.             *)
(***************************************************************************)
EXTENDS Integers, Sequences, FiniteSets, TLC

VARIABLES
    targets,            \* the targets the runtime has created
    pos,                \* target -> <<x, y>>, the target's position
    listeners,          \* target -> number of EVENT_TARGET_MOVED registrations of _onTargetMoved
    customState,        \* target -> reference of its arduino state (Null: none)
    stateHeap,          \* the ARduinoState objects
    attrHeap,           \* the arduinoAttributes objects
    renderer,           \* whether runtime.renderer is set
    _arduinoSkinId,     \* this._arduinoSkinId
    _arduinoDrawableId, \* this._arduinoDrawableId
    skins,              \* number of skins the renderer has created for this extension
    drawables,          \* number of drawables the renderer has created for this extension
    calls,              \* renderer calls issued by the last operation, in order
    redraws,            \* runtime.requestRedraw() calls of the last operation
    warnings,           \* log.warn() calls of the last operation
    last,               \* the last operation and its arguments
    before,             \* the operation before the last one
    pre,                \* the world and the positions the last operation started from
    steps               \* operations performed so far

vars == <<targets, pos, listeners, customState, stateHeap, attrHeap, renderer,
          _arduinoSkinId, _arduinoDrawableId, skins, drawables, calls, redraws,
          warnings, last, before, pre, steps>>

(***************************************************************************)
(* Bounds of the model.                                                    *)
(***************************************************************************)
Scale == 1000
MaxTargets == 2
MaxSteps == 3

Targets == 1..MaxTargets
Null == 0

Num(n) == n * Scale
Mul(a, b) == (a * b) \div Scale
Div(a, b) == (a * Scale) \div b
\* JavaScript's %: the remainder has the sign of the dividend.
Rem(a, b) == IF a >= 0 THEN a % b ELSE 0 - ((0 - a) % b)
\* Math.floor
Floor(a) == (a \div Scale) * Scale
Min(a, b) == IF a < b THEN a ELSE b
Max(a, b) == IF a > b THEN a ELSE b

(***************************************************************************)
(* Inputs the blocks are called with.                                      *)
(***************************************************************************)
ColorParam == {"color", "saturation", "brightness", "transparency"}
ParamNames == ColorParam \cup {"hue"}
ParamValues == {Num(-5), Num(30), Num(100), Num(105)}
HueValues == {Num(-10), Num(250)}
ShadeValues == {Num(-10), Num(250)}
SizeValues == {Num(0), Num(7), Num(5000)}
SizeDeltas == {Num(-2000), Num(600)}
Positions == {<<Num(0), Num(0)>>, <<Num(10), Num(5)>>}
\* RGB(A) colour objects as Cast.toRgbColorObject returns them: channels 0..255,
\* with or without an alpha channel.
RgbColors == {
    [r |-> 255, g |-> 0,   b |-> 0,   hasA |-> FALSE, a |-> 255],
    [r |-> 0,   g |-> 128, b |-> 255, hasA |-> TRUE,  a |-> 51],
    [r |-> 128, g |-> 128, b |-> 128, hasA |-> TRUE,  a |-> 255] }

(***************************************************************************)
(* util/math-util and util/color.                                          *)
(***************************************************************************)
\* MathUtil.clamp(n, min, max)
clamp(n, min, max) == Min(Max(n, min), max)

\* MathUtil.wrapClamp(n, min, max) for min = 0: n wrapped into [0, max)
wrapClamp(n, min, max) == min + (((Rem(n - min, max - min)) + (max - min)) % (max - min))

RGB_BLACK == [r |-> Num(0), g |-> Num(0), b |-> Num(0)]
RGB_WHITE == [r |-> Num(255), g |-> Num(255), b |-> Num(255)]

\* Color.hsvToRgb({h, s, v}): h in degrees, s and v in [0,1]; channels 0..255
hsvToRgb(hsv) ==
    LET h0 == Rem(hsv.h, Num(360))
        h == IF h0 < 0 THEN h0 + Num(360) ELSE h0
        s == clamp(hsv.s, Num(0), Num(1))
        v == clamp(hsv.v, Num(0), Num(1))
        i == h \div Num(60)
        f == (h \div 60) - Num(i)
        p == Mul(v, Num(1) - s)
        q == Mul(v, Num(1) - Mul(s, f))
        t == Mul(v, Num(1) - Mul(s, Num(1) - f))
        rgb == CASE i = 0 -> <<v, t, p>>
                 [] i = 1 -> <<q, v, p>>
                 [] i = 2 -> <<p, v, t>>
                 [] i = 3 -> <<p, q, v>>
                 [] i = 4 -> <<t, p, v>>
                 [] OTHER -> <<v, p, q>>
    IN [r |-> Floor(rgb[1] * 255), g |-> Floor(rgb[2] * 255), b |-> Floor(rgb[3] * 255)]

\* Color.rgbToHsv({r, g, b}): channels 0..255; h in degrees, s and v in [0,1]
rgbToHsv(rgb) ==
    LET r == rgb.r \div 255
        g == rgb.g \div 255
        b == rgb.b \div 255
        x == Min(Min(r, g), b)
        v == Max(Max(r, g), b)
        f == IF r = x THEN g - b ELSE IF g = x THEN b - r ELSE r - g
        i == IF r = x THEN 3 ELSE IF g = x THEN 5 ELSE 1
    IN IF x = v
       THEN [h |-> Num(0), s |-> Num(0), v |-> v]
       ELSE [h |-> Rem((Num(i) - Div(f, v - x)) * 60, Num(360)),
             s |-> Div(v - x, v),
             v |-> v]

\* Color.mixRgb(rgb0, rgb1, fraction1)
mixRgb(rgb0, rgb1, fraction1) ==
    IF fraction1 <= Num(0) THEN rgb0
    ELSE IF fraction1 >= Num(1) THEN rgb1
    ELSE LET fraction0 == Num(1) - fraction1
         IN [r |-> Mul(fraction0, rgb0.r) + Mul(fraction1, rgb1.r),
             g |-> Mul(fraction0, rgb0.g) + Mul(fraction1, rgb1.g),
             b |-> Mul(fraction0, rgb0.b) + Mul(fraction1, rgb1.b)]

(***************************************************************************)
(* The state objects.                                                      *)
(***************************************************************************)
\* static get DEFAULT_ARDUINO_STATE: 66.66 is 6666/100
DEFAULT_ARDUINO_STATE ==
    [arduinoDown |-> FALSE,
     color |-> (6666 * Scale) \div 100,
     saturation |-> Num(100),
     brightness |-> Num(100),
     transparency |-> Num(0),
     _shade |-> Num(50),
     arduinoAttributes |-> [color4f |-> <<Num(0), Num(0), Num(1), Num(1)>>,
                            diameter |-> Num(1)]]

\* static get ARDUINO_SIZE_RANGE
ARDUINO_SIZE_RANGE == [min |-> Num(1), max |-> Num(1200)]

\* Everything a handler reads and writes: the targets' state slots and listener
\* lists, the two heaps, the extension's own fields, the renderer's allocators
\* and what the running operation has issued so far.
World ==
    [cs |-> customState, sh |-> stateHeap, ah |-> attrHeap, ls |-> listeners,
     skinId |-> _arduinoSkinId, drawableId |-> _arduinoDrawableId,
     skins |-> skins, drawables |-> drawables,
     calls |-> <<>>, redraws |-> 0, warn |-> 0]

\* A target as a handler sees it: its identity and its position.
Target(t) == [id |-> t, x |-> pos[t][1], y |-> pos[t][2]]

\* The value of state object s with its nested attributes object inlined.
Deref(W, s) == [W.sh[s] EXCEPT !.arduinoAttributes = W.ah[W.sh[s].arduinoAttributes]]

\* The arduino state of target t as a value (Null when it has none).
StateOf(W, t) == IF W.cs[t] = Null THEN Null ELSE Deref(W, W.cs[t])

\* Clone.simple(original): a deep copy; the copy is the newest state object.
CloneSimple(W, original) ==
    [W EXCEPT !.sh = Append(@, [original EXCEPT !.arduinoAttributes = Len(W.ah) + 1]),
              !.ah = Append(@, original.arduinoAttributes)]

\* target.getCustomState(STATE_KEY)
getCustomState(W, t) == W.cs[t]

\* target.setCustomState(STATE_KEY, s)
setCustomState(W, t, s) == [W EXCEPT !.cs[t] = s]

\* target.addListener(EVENT_TARGET_MOVED, this._onTargetMoved)
addListener(W, t) == [W EXCEPT !.ls[t] = @ + 1]

\* target.removeListener(EVENT_TARGET_MOVED, this._onTargetMoved)
removeListener(W, t) == [W EXCEPT !.ls[t] = IF @ > 0 THEN @ - 1 ELSE 0]

\* A renderer call, and runtime.requestRedraw()
Call(W, fn, args) == [W EXCEPT !.calls = Append(@, [fn |-> fn, args |-> args])]
requestRedraw(W) == [W EXCEPT !.redraws = @ + 1]

\* _getARduinoState(target): the world after the call; the state is W.cs[t] there
_getARduinoState(W, t) ==
    IF getCustomState(W, t) # Null THEN W
    ELSE LET W1 == CloneSimple(W, DEFAULT_ARDUINO_STATE)
         IN setCustomState(W1, t, Len(W1.sh))

\* _clampARduinoSize without the lower limit
_clampARduinoSize_noMin(requestedSize) == Min(requestedSize, ARDUINO_SIZE_RANGE.max)

\* _clampARduinoSize(requestedSize)
_clampARduinoSize(requestedSize) ==
    clamp(requestedSize, ARDUINO_SIZE_RANGE.min, ARDUINO_SIZE_RANGE.max)

\* _wrapColor saturating instead of wrapping
_wrapColor_saturating(value) == clamp(value, Num(0), Num(100))

\* _wrapColor(value)
_wrapColor(value) == wrapClamp(value, Num(0), Num(100))

\* _clampColorParam that does not clamp
_clampColorParam_none(value) == value

\* _clampColorParam(value)
_clampColorParam(value) == clamp(value, Num(0), Num(100))

\* _transparencyToAlpha(transparency)
_transparencyToAlpha(transparency) == Num(1) - (transparency \div 100)

\* The color4f that _updateARduinoColor derives from the four colour parameters.
Color4fOf(st) ==
    LET rgb == hsvToRgb([h |-> (st.color * 360) \div 100,
                         s |-> st.saturation \div 100,
                         v |-> st.brightness \div 100])
    IN <<rgb.r \div 255, rgb.g \div 255, rgb.b \div 255,
         _transparencyToAlpha(st.transparency)>>

\* _updateARduinoColor that refreshes the three colour channels and not the alpha
_updateARduinoColor_noAlpha(W, s) ==
    [W EXCEPT !.ah[W.sh[s].arduinoAttributes].color4f =
        [Color4fOf(W.sh[s]) EXCEPT ![4] = W.ah[W.sh[s].arduinoAttributes].color4f[4]]]

\* _updateARduinoColor(arduinoState): writes color4f in the state's attributes object
_updateARduinoColor(W, s) ==
    [W EXCEPT !.ah[W.sh[s].arduinoAttributes].color4f = Color4fOf(W.sh[s])]

(***************************************************************************)
(* The handlers, each as the world it leaves.                              *)
(***************************************************************************)
\* _getARduinoLayerID that does not test for the renderer
_getARduinoLayerID_noRendererTest(W) ==
    IF W.skinId < 0
    THEN LET W1 == Call([W EXCEPT !.skinId = W.skins, !.skins = @ + 1],
                        "createARduinoSkin", <<>>)
             W2 == Call([W1 EXCEPT !.drawableId = W1.drawables, !.drawables = @ + 1],
                        "createDrawable", <<"ARDUINO_LAYER">>)
         IN Call(W2, "updateDrawableProperties", <<W2.drawableId, W2.skinId>>)
    ELSE W

\* _getARduinoLayerID that does not test whether the skin exists
_getARduinoLayerID_again(W) ==
    IF renderer
    THEN LET W1 == Call([W EXCEPT !.skinId = W.skins, !.skins = @ + 1],
                        "createARduinoSkin", <<>>)
             W2 == Call([W1 EXCEPT !.drawableId = W1.drawables, !.drawables = @ + 1],
                        "createDrawable", <<"ARDUINO_LAYER">>)
         IN Call(W2, "updateDrawableProperties", <<W2.drawableId, W2.skinId>>)
    ELSE W

\* _getARduinoLayerID(): the skin id is W.skinId in the world it leaves
_getARduinoLayerID(W) ==
    IF W.skinId < 0 /\ renderer
    THEN LET W1 == Call([W EXCEPT !.skinId = W.skins, !.skins = @ + 1],
                        "createARduinoSkin", <<>>)
             W2 == Call([W1 EXCEPT !.drawableId = W1.drawables, !.drawables = @ + 1],
                        "createDrawable", <<"ARDUINO_LAYER">>)
         IN Call(W2, "updateDrawableProperties", <<W2.drawableId, W2.skinId>>)
    ELSE W

\* _onTargetCreated that hands the clone the source's own state object
_onTargetCreated_alias(W, newTarget, sourceTarget) ==
    IF sourceTarget # Null /\ getCustomState(W, sourceTarget) # Null
    THEN LET arduinoState == getCustomState(W, sourceTarget)
             W2 == setCustomState(W, newTarget, arduinoState)
         IN IF W.sh[arduinoState].arduinoDown THEN addListener(W2, newTarget) ELSE W2
    ELSE W

\* _onTargetCreated(newTarget, sourceTarget): sourceTarget is Null when not given
_onTargetCreated(W, newTarget, sourceTarget) ==
    IF sourceTarget # Null
    THEN LET arduinoState == getCustomState(W, sourceTarget)
         IN IF arduinoState # Null
            THEN LET W1 == CloneSimple(W, Deref(W, arduinoState))
                     W2 == setCustomState(W1, newTarget, Len(W1.sh))
                 IN IF W.sh[arduinoState].arduinoDown
                    THEN addListener(W2, newTarget)
                    ELSE W2
            ELSE W
    ELSE W

\* _onTargetMoved that draws for a forced move too
_onTargetMoved_forced(W, target, oldX, oldY, isForce) ==
    LET W1 == _getARduinoLayerID(W)
    IN IF W1.skinId >= 0
       THEN LET W2 == _getARduinoState(W1, target.id)
                arduinoState == W2.sh[W2.cs[target.id]]
            IN requestRedraw(Call(W2, "arduinoLine",
                   <<W1.skinId, W2.ah[arduinoState.arduinoAttributes],
                     oldX, oldY, target.x, target.y>>))
       ELSE W1

\* _onTargetMoved(target, oldX, oldY, isForce)
_onTargetMoved(W, target, oldX, oldY, isForce) ==
    IF ~isForce
    THEN LET W1 == _getARduinoLayerID(W)
         IN IF W1.skinId >= 0
            THEN LET W2 == _getARduinoState(W1, target.id)
                     arduinoState == W2.sh[W2.cs[target.id]]
                 IN requestRedraw(Call(W2, "arduinoLine",
                        <<W1.skinId, W2.ah[arduinoState.arduinoAttributes],
                          oldX, oldY, target.x, target.y>>))
            ELSE W1
    ELSE W

\* clear that does not ask for a redraw
clear_noRedraw(W) ==
    LET W1 == _getARduinoLayerID(W)
    IN IF W1.skinId >= 0
       THEN Call(W1, "arduinoClear", <<W1.skinId>>)
       ELSE W1

\* clear()
clear(W) ==
    LET W1 == _getARduinoLayerID(W)
    IN IF W1.skinId >= 0
       THEN requestRedraw(Call(W1, "arduinoClear", <<W1.skinId>>))
       ELSE W1

\* stamp(args, util): the target's drawableID is its identity
stamp(W, target) ==
    LET W1 == _getARduinoLayerID(W)
    IN IF W1.skinId >= 0
       THEN requestRedraw(Call(W1, "arduinoStamp", <<W1.skinId, target.id>>))
       ELSE W1

\* arduinoDown that draws its point only when it enables the trail
arduinoDown_drawOnEnable(W, target) ==
    LET W1 == _getARduinoState(W, target.id)
        s == W1.cs[target.id]
    IN IF ~W1.sh[s].arduinoDown
       THEN LET W2 == addListener([W1 EXCEPT !.sh[s].arduinoDown = TRUE], target.id)
                W3 == _getARduinoLayerID(W2)
            IN IF W3.skinId >= 0
               THEN requestRedraw(Call(W3, "arduinoPoint",
                        <<W3.skinId, W3.ah[W3.sh[s].arduinoAttributes],
                          target.x, target.y>>))
               ELSE W3
       ELSE W1

\* arduinoDown that registers the handler on every call
arduinoDown_alwaysListen(W, target) ==
    LET W1 == _getARduinoState(W, target.id)
        s == W1.cs[target.id]
        W2 == addListener([W1 EXCEPT !.sh[s].arduinoDown = TRUE], target.id)
        W3 == _getARduinoLayerID(W2)
    IN IF W3.skinId >= 0
       THEN requestRedraw(Call(W3, "arduinoPoint",
                <<W3.skinId, W3.ah[W3.sh[s].arduinoAttributes], target.x, target.y>>))
       ELSE W3

\* arduinoDown(args, util)
arduinoDown(W, target) ==
    LET W1 == _getARduinoState(W, target.id)
        s == W1.cs[target.id]
        W2 == IF ~W1.sh[s].arduinoDown
              THEN addListener([W1 EXCEPT !.sh[s].arduinoDown = TRUE], target.id)
              ELSE W1
        W3 == _getARduinoLayerID(W2)
    IN IF W3.skinId >= 0
       THEN requestRedraw(Call(W3, "arduinoPoint",
                <<W3.skinId, W3.ah[W3.sh[s].arduinoAttributes], target.x, target.y>>))
       ELSE W3

\* arduinoUp that leaves the handler registered
arduinoUp_keepListener(W, target) ==
    LET W1 == _getARduinoState(W, target.id)
        s == W1.cs[target.id]
    IN IF W1.sh[s].arduinoDown
       THEN [W1 EXCEPT !.sh[s].arduinoDown = FALSE]
       ELSE W1

\* arduinoUp(args, util)
arduinoUp(W, target) ==
    LET W1 == _getARduinoState(W, target.id)
        s == W1.cs[target.id]
    IN IF W1.sh[s].arduinoDown
       THEN removeListener([W1 EXCEPT !.sh[s].arduinoDown = FALSE], target.id)
       ELSE W1

\* setARduinoColorToColor that keeps the transparency when the colour has no alpha
setARduinoColorToColor_keepTransparency(W, target, rgb) ==
    LET W1 == _getARduinoState(W, target.id)
        s == W1.cs[target.id]
        hsv == rgbToHsv([r |-> Num(rgb.r), g |-> Num(rgb.g), b |-> Num(rgb.b)])
        brightness == hsv.v * 100
        W2 == [W1 EXCEPT !.sh[s].color = (hsv.h \div 360) * 100,
                         !.sh[s].saturation = hsv.s * 100,
                         !.sh[s].brightness = brightness,
                         !.sh[s].transparency =
                             IF rgb.hasA THEN 100 * (Num(1) - (Num(rgb.a) \div 255))
                                         ELSE @,
                         !.sh[s]._shade = brightness \div 2]
    IN _updateARduinoColor(W2, s)

\* setARduinoColorToColor(args, util): rgb is Cast.toRgbColorObject(args.COLOR)
setARduinoColorToColor(W, target, rgb) ==
    LET W1 == _getARduinoState(W, target.id)
        s == W1.cs[target.id]
        hsv == rgbToHsv([r |-> Num(rgb.r), g |-> Num(rgb.g), b |-> Num(rgb.b)])
        brightness == hsv.v * 100
        W2 == [W1 EXCEPT !.sh[s].color = (hsv.h \div 360) * 100,
                         !.sh[s].saturation = hsv.s * 100,
                         !.sh[s].brightness = brightness,
                         !.sh[s].transparency =
                             IF rgb.hasA THEN 100 * (Num(1) - (Num(rgb.a) \div 255))
                                         ELSE Num(0),
                         !.sh[s]._shade = brightness \div 2]
    IN _updateARduinoColor(W2, s)

\* _setOrChangeColorParam whose default label shares the transparency case
_setOrChangeColorParam_noDefault(W, param, value, s, change) ==
    LET st == W.sh[s]
        W1 == CASE param = "color" ->
                     [W EXCEPT !.sh[s].color =
                         _wrapColor(value + (IF change THEN st.color ELSE 0))]
                [] param = "saturation" ->
                     [W EXCEPT !.sh[s].saturation =
                         _clampColorParam(value + (IF change THEN st.saturation ELSE 0))]
                [] param = "brightness" ->
                     [W EXCEPT !.sh[s].brightness =
                         _clampColorParam(value + (IF change THEN st.brightness ELSE 0))]
                [] OTHER ->
                     [W EXCEPT !.sh[s].transparency =
                         _clampColorParam(value + (IF change THEN st.transparency ELSE 0))]
    IN _updateARduinoColor(W1, s)

\* _setOrChangeColorParam(param, value, arduinoState, change)
_setOrChangeColorParam(W, param, value, s, change) ==
    LET st == W.sh[s]
        W1 == CASE param = "color" ->
                     [W EXCEPT !.sh[s].color =
                         _wrapColor(value + (IF change THEN st.color ELSE 0))]
                [] param = "saturation" ->
                     [W EXCEPT !.sh[s].saturation =
                         _clampColorParam(value + (IF change THEN st.saturation ELSE 0))]
                [] param = "brightness" ->
                     [W EXCEPT !.sh[s].brightness =
                         _clampColorParam(value + (IF change THEN st.brightness ELSE 0))]
                [] param = "transparency" ->
                     [W EXCEPT !.sh[s].transparency =
                         _clampColorParam(value + (IF change THEN st.transparency ELSE 0))]
                [] OTHER -> [W EXCEPT !.warn = @ + 1]
    IN _updateARduinoColor(W1, s)

\* changeARduinoColorParamBy that sets instead of changing
changeARduinoColorParamBy_set(W, target, COLOR_PARAM, VALUE) ==
    LET W1 == _getARduinoState(W, target.id)
    IN _setOrChangeColorParam(W1, COLOR_PARAM, VALUE, W1.cs[target.id], FALSE)

\* changeARduinoColorParamBy(args, util)
changeARduinoColorParamBy(W, target, COLOR_PARAM, VALUE) ==
    LET W1 == _getARduinoState(W, target.id)
    IN _setOrChangeColorParam(W1, COLOR_PARAM, VALUE, W1.cs[target.id], TRUE)

\* setARduinoColorParamTo(args, util)
setARduinoColorParamTo(W, target, COLOR_PARAM, VALUE) ==
    LET W1 == _getARduinoState(W, target.id)
    IN _setOrChangeColorParam(W1, COLOR_PARAM, VALUE, W1.cs[target.id], FALSE)

\* changeARduinoSizeBy(args, util)
changeARduinoSizeBy(W, target, SIZE) ==
    LET W1 == _getARduinoState(W, target.id)
        arduinoAttributes == W1.sh[W1.cs[target.id]].arduinoAttributes
    IN [W1 EXCEPT !.ah[arduinoAttributes].diameter = _clampARduinoSize(@ + SIZE)]

\* setARduinoSizeTo(args, util)
setARduinoSizeTo(W, target, SIZE) ==
    LET W1 == _getARduinoState(W, target.id)
        arduinoAttributes == W1.sh[W1.cs[target.id]].arduinoAttributes
    IN [W1 EXCEPT !.ah[arduinoAttributes].diameter = _clampARduinoSize(SIZE)]

\* _legacyUpdateARduinoColor(arduinoState)
_legacyUpdateARduinoColor(W, s) ==
    LET st == W.sh[s]
        rgb0 == hsvToRgb([h |-> (st.color * 360) \div 100, s |-> Num(1), v |-> Num(1)])
        shade == IF st._shade > Num(100) THEN Num(200) - st._shade ELSE st._shade
        rgb == IF shade < Num(50)
               THEN mixRgb(RGB_BLACK, rgb0, (Num(10) + shade) \div 60)
               ELSE mixRgb(rgb0, RGB_WHITE, (shade - Num(50)) \div 60)
        hsv == rgbToHsv(rgb)
        W1 == [W EXCEPT !.sh[s].color = (100 * hsv.h) \div 360,
                        !.sh[s].saturation = 100 * hsv.s,
                        !.sh[s].brightness = 100 * hsv.v]
    IN _updateARduinoColor(W1, s)

\* setARduinoHueToNumber that leaves the transparency as it is
setARduinoHueToNumber_keepTransparency(W, target, HUE) ==
    LET W1 == _getARduinoState(W, target.id)
        s == W1.cs[target.id]
        colorValue == HUE \div 2
        W2 == _setOrChangeColorParam(W1, "color", colorValue, s, FALSE)
    IN _legacyUpdateARduinoColor(W2, s)

\* setARduinoHueToNumber(args, util)
setARduinoHueToNumber(W, target, HUE) ==
    LET W1 == _getARduinoState(W, target.id)
        s == W1.cs[target.id]
        colorValue == HUE \div 2
        W2 == _setOrChangeColorParam(W1, "color", colorValue, s, FALSE)
        W3 == _setOrChangeColorParam(W2, "transparency", Num(0), s, FALSE)
    IN _legacyUpdateARduinoColor(W3, s)

\* changeARduinoHueBy(args, util)
changeARduinoHueBy(W, target, HUE) ==
    LET W1 == _getARduinoState(W, target.id)
        s == W1.cs[target.id]
        colorChange == HUE \div 2
        W2 == _setOrChangeColorParam(W1, "color", colorChange, s, TRUE)
    IN _legacyUpdateARduinoColor(W2, s)

\* setARduinoShadeToNumber(args, util)
setARduinoShadeToNumber(W, target, SHADE) ==
    LET W1 == _getARduinoState(W, target.id)
        s == W1.cs[target.id]
        shade0 == Rem(SHADE, Num(200))
        newShade == IF shade0 < 0 THEN shade0 + Num(200) ELSE shade0
    IN _legacyUpdateARduinoColor([W1 EXCEPT !.sh[s]._shade = newShade], s)

\* changeARduinoShadeBy that takes the shade to change from the brightness
changeARduinoShadeBy_fromBrightness(W, target, SHADE) ==
    LET W1 == _getARduinoState(W, target.id)
        arduinoState == W1.sh[W1.cs[target.id]]
    IN setARduinoShadeToNumber(W1, target, (arduinoState.brightness \div 2) + SHADE)

\* changeARduinoShadeBy(args, util)
changeARduinoShadeBy(W, target, SHADE) ==
    LET W1 == _getARduinoState(W, target.id)
        arduinoState == W1.sh[W1.cs[target.id]]
    IN setARduinoShadeToNumber(W1, target, arduinoState._shade + SHADE)

\* target.emit(EVENT_TARGET_MOVED, target, oldX, oldY, isForce): every
\* registration of the handler is called, n of them left to call
RECURSIVE emitTargetMoved(_, _, _, _, _, _)
emitTargetMoved(W, n, target, oldX, oldY, isForce) ==
    IF n = 0 THEN W
    ELSE emitTargetMoved(_onTargetMoved(W, target, oldX, oldY, isForce),
                         n - 1, target, oldX, oldY, isForce)

(***************************************************************************)
(* The state machine: one action per block, runtime event or step of the   *)
(* environment.                                                            *)
(***************************************************************************)
NoRgb == [r |-> 0, g |-> 0, b |-> 0, hasA |-> FALSE, a |-> 0]

\* The record of an operation; the fields an operation does not use keep these values.
NoOp ==
    [op |-> "constructor", target |-> Null, param |-> "", value |-> 0, rgb |-> NoRgb,
     from |-> <<0, 0>>, force |-> FALSE, source |-> Null]

\* What the last operation started from.
Snapshot == World @@ [pos |-> pos]

\* constructor(runtime): no target has arduino state, no skin or drawable exists
Init ==
    /\ targets = {1}
    /\ pos = [t \in Targets |-> <<Num(0), Num(0)>>]
    /\ listeners = [t \in Targets |-> 0]
    /\ customState = [t \in Targets |-> Null]
    /\ stateHeap = <<>>
    /\ attrHeap = <<>>
    /\ renderer \in BOOLEAN
    /\ _arduinoSkinId = -1
    /\ _arduinoDrawableId = -1
    /\ skins = 0
    /\ drawables = 0
    /\ calls = <<>>
    /\ redraws = 0
    /\ warnings = 0
    /\ last = NoOp
    /\ before = NoOp
    /\ pre = Snapshot
    /\ steps = 0

\* The operation has returned leaving world W.
Commit(W, op) ==
    /\ customState' = W.cs
    /\ stateHeap' = W.sh
    /\ attrHeap' = W.ah
    /\ listeners' = W.ls
    /\ _arduinoSkinId' = W.skinId
    /\ _arduinoDrawableId' = W.drawableId
    /\ skins' = W.skins
    /\ drawables' = W.drawables
    /\ calls' = W.calls
    /\ redraws' = W.redraws
    /\ warnings' = W.warn
    /\ last' = op
    /\ before' = last
    /\ pre' = Snapshot
    /\ steps' = steps + 1

Block(W, op) ==
    /\ steps < MaxSteps
    /\ Commit(W, op)
    /\ UNCHANGED <<targets, pos, renderer>>

Clear ==
    Block(clear(World), [NoOp EXCEPT !.op = "clear"])

Stamp(t) ==
    Block(stamp(World, Target(t)), [NoOp EXCEPT !.op = "stamp", !.target = t])

ArduinoDown(t) ==
    Block(arduinoDown(World, Target(t)), [NoOp EXCEPT !.op = "arduinoDown", !.target = t])

ArduinoUp(t) ==
    Block(arduinoUp(World, Target(t)), [NoOp EXCEPT !.op = "arduinoUp", !.target = t])

SetARduinoColorToColor(t, rgb) ==
    Block(setARduinoColorToColor(World, Target(t), rgb),
          [NoOp EXCEPT !.op = "setARduinoColorToColor", !.target = t, !.rgb = rgb])

ChangeARduinoColorParamBy(t, param, value) ==
    Block(changeARduinoColorParamBy(World, Target(t), param, value),
          [NoOp EXCEPT !.op = "changeARduinoColorParamBy", !.target = t,
                       !.param = param, !.value = value])

SetARduinoColorParamTo(t, param, value) ==
    Block(setARduinoColorParamTo(World, Target(t), param, value),
          [NoOp EXCEPT !.op = "setARduinoColorParamTo", !.target = t,
                       !.param = param, !.value = value])

ChangeARduinoSizeBy(t, size) ==
    Block(changeARduinoSizeBy(World, Target(t), size),
          [NoOp EXCEPT !.op = "changeARduinoSizeBy", !.target = t, !.value = size])

SetARduinoSizeTo(t, size) ==
    Block(setARduinoSizeTo(World, Target(t), size),
          [NoOp EXCEPT !.op = "setARduinoSizeTo", !.target = t, !.value = size])

SetARduinoHueToNumber(t, hue) ==
    Block(setARduinoHueToNumber(World, Target(t), hue),
          [NoOp EXCEPT !.op = "setARduinoHueToNumber", !.target = t, !.value = hue])

ChangeARduinoHueBy(t, hue) ==
    Block(changeARduinoHueBy(World, Target(t), hue),
          [NoOp EXCEPT !.op = "changeARduinoHueBy", !.target = t, !.value = hue])

SetARduinoShadeToNumber(t, shade) ==
    Block(setARduinoShadeToNumber(World, Target(t), shade),
          [NoOp EXCEPT !.op = "setARduinoShadeToNumber", !.target = t, !.value = shade])

ChangeARduinoShadeBy(t, shade) ==
    Block(changeARduinoShadeBy(World, Target(t), shade),
          [NoOp EXCEPT !.op = "changeARduinoShadeBy", !.target = t, !.value = shade])

\* The runtime creates a target and emits targetWasCreated(newTarget, sourceTarget):
\* a clone starts at its source's position, another new target at p.
TargetWasCreated(source, p) ==
    LET newTarget == Cardinality(targets) + 1
    IN /\ steps < MaxSteps
       /\ newTarget \in Targets
       /\ source # Null => p = pos[source]
       /\ targets' = targets \cup {newTarget}
       /\ pos' = [pos EXCEPT ![newTarget] = p]
       /\ Commit(_onTargetCreated(World, newTarget, source),
                 [NoOp EXCEPT !.op = "targetWasCreated", !.target = newTarget,
                              !.source = source])
       /\ UNCHANGED renderer

\* The target moves to p and emits EVENT_TARGET_MOVED(target, oldX, oldY, isForce).
TargetMoved(t, p, isForce) ==
    /\ steps < MaxSteps
    /\ pos' = [pos EXCEPT ![t] = p]
    /\ Commit(emitTargetMoved(World, listeners[t], [id |-> t, x |-> p[1], y |-> p[2]],
                              pos[t][1], pos[t][2], isForce),
              [NoOp EXCEPT !.op = "targetMoved", !.target = t, !.from = pos[t],
                           !.force = isForce])
    /\ UNCHANGED <<targets, renderer>>

\* The runtime gets its renderer.
AttachRenderer ==
    /\ steps < MaxSteps
    /\ ~renderer
    /\ renderer' = TRUE
    /\ Commit(World, [NoOp EXCEPT !.op = "attachRenderer"])
    /\ UNCHANGED <<targets, pos>>

Next ==
    \/ Clear
    \/ \E t \in targets : Stamp(t)
    \/ \E t \in targets : ArduinoDown(t)
    \/ \E t \in targets : ArduinoUp(t)
    \/ \E t \in targets, rgb \in RgbColors : SetARduinoColorToColor(t, rgb)
    \/ \E t \in targets, param \in ParamNames, value \in ParamValues :
           ChangeARduinoColorParamBy(t, param, value)
    \/ \E t \in targets, param \in ParamNames, value \in ParamValues :
           SetARduinoColorParamTo(t, param, value)
    \/ \E t \in targets, size \in SizeDeltas : ChangeARduinoSizeBy(t, size)
    \/ \E t \in targets, size \in SizeValues : SetARduinoSizeTo(t, size)
    \/ \E t \in targets, hue \in HueValues : SetARduinoHueToNumber(t, hue)
    \/ \E t \in targets, hue \in HueValues : ChangeARduinoHueBy(t, hue)
    \/ \E t \in targets, shade \in ShadeValues : SetARduinoShadeToNumber(t, shade)
    \/ \E t \in targets, shade \in ShadeValues : ChangeARduinoShadeBy(t, shade)
    \/ \E source \in targets \cup {Null}, p \in Positions : TargetWasCreated(source, p)
    \/ \E t \in targets, p \in Positions, isForce \in BOOLEAN : TargetMoved(t, p, isForce)
    \/ AttachRenderer

Spec == Init /\ [][Next]_vars

(***************************************************************************)
(* What the properties below speak of.                                     *)
(***************************************************************************)
HasState(t) == customState[t] # Null

\* Target t's record now and before the last operation (Null: none).
Rec(t) == StateOf(World, t)
PreRec(t) == StateOf(pre, t)

\* The record the last operation worked on: the one t had, or the default
\* record that is installed for a target without one.
PreRecOrDefault(t) == IF pre.cs[t] = Null THEN DEFAULT_ARDUINO_STATE ELSE PreRec(t)

PreHasState(t) == pre.cs[t] # Null

\* The last operation left t's record as it was (or left t without one).
RecUnchanged(t) ==
    IF PreHasState(t) THEN HasState(t) /\ Rec(t) = PreRec(t) ELSE ~HasState(t)

ColourOps ==
    {"setARduinoColorParamTo", "changeARduinoColorParamBy", "setARduinoColorToColor",
     "setARduinoHueToNumber", "changeARduinoHueBy", "setARduinoShadeToNumber",
     "changeARduinoShadeBy"}

\* The renderer calls of the last operation that are calls of fn.
CallsOf(fn) == SelectSeq(calls, LAMBDA c : c.fn = fn)

\* rgba as the colour parameters determine it: the HSV to RGB conversion of
\* (color * 3.6 degrees, saturation / 100, brightness / 100) over 255, and
\* alpha = 1 - transparency / 100.
DerivedRgba(st) ==
    LET rgb == hsvToRgb([h |-> (st.color * 36) \div 10,
                         s |-> st.saturation \div 100,
                         v |-> st.brightness \div 100])
    IN <<rgb.r \div 255, rgb.g \div 255, rgb.b \div 255,
         Num(1) - (st.transparency \div 100)>>

(***************************************************************************)
(* C1: in every reachable state, every target's cached color4f is the      *)
(* value derived from its current color, saturation, brightness and        *)
(* transparency; no operation returns with the cache stale.                *)
(***************************************************************************)
C1_CacheConsistent ==
    \A t \in targets :
        HasState(t) => Rec(t).arduinoAttributes.color4f = DerivedRgba(Rec(t))

\* A colour operation has changed both the colour channels and the alpha.
C1_Witness ==
    /\ last.op \in ColourOps
    /\ HasState(last.target)
    /\ Rec(last.target).arduinoAttributes.color4f[3] # Num(1)
    /\ Rec(last.target).arduinoAttributes.color4f[4] # Num(1)

(***************************************************************************)
(* C2: after any operation, color, saturation, brightness and transparency *)
(* of every target's record lie in [0, 100].                               *)
(***************************************************************************)
InParamRange(x) == Num(0) <= x /\ x <= Num(100)

C2_ParamsInRange ==
    \A t \in targets :
        HasState(t) =>
            /\ InParamRange(Rec(t).color)
            /\ InParamRange(Rec(t).saturation)
            /\ InParamRange(Rec(t).brightness)
            /\ InParamRange(Rec(t).transparency)

\* A parameter was set to a value above the range and was pinned to 100, and
\* one was set below the range and was pinned to 0.
C2_Witness ==
    /\ last.op = "setARduinoColorParamTo" /\ last.param = "transparency"
    /\ last.value = Num(105)
    /\ Rec(last.target).transparency = Num(100)
    /\ before.op = "changeARduinoColorParamBy" /\ before.param = "brightness"
    /\ before.target = last.target /\ before.value = Num(-5)
    /\ Rec(last.target).brightness = Num(95)

(***************************************************************************)
(* C3: setARduinoSizeTo leaves diameter = clamp(x, 1, 1200),               *)
(* changeARduinoSizeBy leaves diameter = clamp(old diameter + d, 1, 1200), *)
(* saturating; the diameter of every record is in [1, 1200] in every       *)
(* reachable state.                                                        *)
(***************************************************************************)
Saturate(x, lo, hi) == IF x < lo THEN lo ELSE IF x > hi THEN hi ELSE x

C3_SizeClamped ==
    /\ \A t \in targets :
           HasState(t) =>
               /\ Num(1) <= Rec(t).arduinoAttributes.diameter
               /\ Rec(t).arduinoAttributes.diameter <= Num(1200)
    /\ last.op = "setARduinoSizeTo" =>
           Rec(last.target).arduinoAttributes.diameter
               = Saturate(last.value, Num(1), Num(1200))
    /\ last.op = "changeARduinoSizeBy" =>
           Rec(last.target).arduinoAttributes.diameter
               = Saturate(PreRecOrDefault(last.target).arduinoAttributes.diameter
                              + last.value, Num(1), Num(1200))

\* A change took a diameter inside the range below it and was raised to 1.
C3_Witness ==
    /\ last.op = "changeARduinoSizeBy" /\ last.value = Num(-2000)
    /\ PreHasState(last.target)
    /\ PreRec(last.target).arduinoAttributes.diameter = Num(607)
    /\ Rec(last.target).arduinoAttributes.diameter = Num(1)

(***************************************************************************)
(* C4: setARduinoColorParamTo(color, x) leaves color = x modulo 100, in    *)
(* [0, 100); changeARduinoColorParamBy(color, d) leaves the same wrap of   *)
(* the old color + d.                                                      *)
(***************************************************************************)
C4_ColorWraps ==
    /\ (last.op = "setARduinoColorParamTo" /\ last.param = "color") =>
           /\ Rec(last.target).color = last.value % Num(100)
           /\ Num(0) <= Rec(last.target).color /\ Rec(last.target).color < Num(100)
    /\ (last.op = "changeARduinoColorParamBy" /\ last.param = "color") =>
           /\ Rec(last.target).color
                  = (PreRecOrDefault(last.target).color + last.value) % Num(100)
           /\ Num(0) <= Rec(last.target).color /\ Rec(last.target).color < Num(100)

\* color was set to exactly 100 and wrapped to 0; before that a change by -5
\* wrapped below 0.
C4_Witness ==
    /\ last.op = "setARduinoColorParamTo" /\ last.param = "color"
    /\ last.value = Num(100) /\ Rec(last.target).color = Num(0)
    /\ before.op = "changeARduinoColorParamBy" /\ before.param = "color"
    /\ before.value = Num(-5) /\ before.target = last.target
    /\ PreRec(last.target).color = Num(25)

(***************************************************************************)
(* C5: for p among saturation, brightness and transparency,                *)
(* setARduinoColorParamTo(p, x) leaves p = min(max(x, 0), 100) and the     *)
(* other three colour parameters unchanged; changeARduinoColorParamBy(p,   *)
(* d) leaves the state that setARduinoColorParamTo(p, d + current p)       *)
(* would leave.                                                            *)
(***************************************************************************)
ClampedParams == {"saturation", "brightness", "transparency"}

ParamOf(st, p) ==
    CASE p = "color" -> st.color
      [] p = "saturation" -> st.saturation
      [] p = "brightness" -> st.brightness
      [] p = "transparency" -> st.transparency

C5_ParamClamps ==
    /\ (last.op = "setARduinoColorParamTo" /\ last.param \in ClampedParams) =>
           /\ ParamOf(Rec(last.target), last.param)
                  = Saturate(last.value, Num(0), Num(100))
           /\ \A q \in ColorParam \ {last.param} :
                  ParamOf(Rec(last.target), q) = ParamOf(PreRecOrDefault(last.target), q)
    /\ (last.op = "changeARduinoColorParamBy" /\ last.param \in ClampedParams) =>
           Rec(last.target)
               = StateOf(setARduinoColorParamTo(pre, [id |-> last.target], last.param,
                             last.value + ParamOf(PreRecOrDefault(last.target), last.param)),
                         last.target)

\* A change by -5 took a saturation of 30 to 25.
C5_Witness ==
    /\ last.op = "changeARduinoColorParamBy" /\ last.param = "saturation"
    /\ last.value = Num(-5)
    /\ PreHasState(last.target)
    /\ PreRec(last.target).saturation = Num(30)
    /\ Rec(last.target).saturation = Num(25)

(***************************************************************************)
(* C6: setARduinoColorParamTo or changeARduinoColorParamBy with a name     *)
(* that is no colour parameter leaves the target's whole record as it was  *)
(* (the default record when the target had none) and reports one warning.  *)
(***************************************************************************)
C6_UnknownParamIgnored ==
    (/\ last.op \in {"setARduinoColorParamTo", "changeARduinoColorParamBy"}
     /\ last.param \notin ColorParam) =>
        /\ Rec(last.target) = PreRecOrDefault(last.target)
        /\ warnings = 1
        /\ \A u \in targets \ {last.target} : RecUnchanged(u)

\* An unknown name was used on a record whose saturation had just been set to 30.
C6_Witness ==
    /\ last.op = "changeARduinoColorParamBy" /\ last.param = "hue"
    /\ before.op = "setARduinoColorParamTo" /\ before.param = "saturation"
    /\ before.target = last.target
    /\ Rec(last.target).saturation = Num(30)
    /\ warnings = 1

(***************************************************************************)
(* C7: with the renderer available, every arduinoDown issues exactly one   *)
(* point draw, at the target's position and with its current attributes,   *)
(* whether or not the trail was enabled before; a call that finds the      *)
(* trail disabled enables it and adds one registration of the movement     *)
(* handler, a call that finds it enabled adds none.                        *)
(***************************************************************************)
DrawFns == {"arduinoPoint", "arduinoLine", "arduinoStamp", "arduinoClear"}

\* The drawing calls of the last operation (the calls that create the layer left out).
Draws == SelectSeq(calls, LAMBDA c : c.fn \in DrawFns)

C7_DownDrawsOnePoint ==
    (last.op = "arduinoDown" /\ renderer) =>
        LET t == last.target
        IN /\ Draws = << [fn |-> "arduinoPoint",
                          args |-> <<_arduinoSkinId, Rec(t).arduinoAttributes,
                                     pos[t][1], pos[t][2]>>] >>
           /\ _arduinoSkinId >= 0
           /\ redraws = 1
           /\ Rec(t).arduinoDown
           /\ listeners[t] = IF PreRecOrDefault(t).arduinoDown
                             THEN pre.ls[t]
                             ELSE pre.ls[t] + 1
           /\ \A u \in targets \ {t} : listeners[u] = pre.ls[u]

\* arduinoDown was called on a target whose trail the call before had enabled,
\* away from the origin, and drew its point again.
C7_Witness ==
    /\ last.op = "arduinoDown" /\ before.op = "arduinoDown"
    /\ before.target = last.target
    /\ renderer
    /\ pos[last.target] = <<Num(10), Num(5)>>
    /\ Len(CallsOf("arduinoPoint")) = 1
    /\ listeners[last.target] = 1

(***************************************************************************)
(* C8: for a target whose trail is enabled, with the renderer available,   *)
(* a movement that is not forced issues exactly one line draw, from the    *)
(* old position to the new one, with the attributes the target has at the  *)
(* time of the move; a forced movement issues no draw and no redraw        *)
(* request and changes no state.                                           *)
(***************************************************************************)
C8_MoveDrawsOneLine ==
    (/\ last.op = "targetMoved"
     /\ renderer
     /\ PreHasState(last.target)
     /\ PreRec(last.target).arduinoDown) =>
        LET t == last.target
        IN IF last.force
           THEN /\ calls = <<>>
                /\ redraws = 0
                /\ World = [c \in DOMAIN World |-> pre[c]]
           ELSE /\ Draws = << [fn |-> "arduinoLine",
                               args |-> <<_arduinoSkinId, Rec(t).arduinoAttributes,
                                          last.from[1], last.from[2],
                                          pos[t][1], pos[t][2]>>] >>
                /\ redraws = 1
                /\ \A u \in targets : RecUnchanged(u)

\* The diameter was set after the trail was enabled, and the line of the move
\* that followed carries the new diameter.
C8_Witness ==
    /\ last.op = "targetMoved" /\ ~last.force /\ renderer
    /\ before.op = "setARduinoSizeTo" /\ before.target = last.target
    /\ before.value = Num(7)
    /\ last.from # pos[last.target]
    /\ Len(CallsOf("arduinoLine")) = 1
    /\ CallsOf("arduinoLine")[1].args[2].diameter = Num(7)

(***************************************************************************)
(* C9: a second arduinoUp in a row changes nothing: after the first the    *)
(* trail is disabled and the handler is not registered, and the second     *)
(* removes nothing; a second arduinoDown in a row leaves the trail enabled *)
(* and the handler registered once, as the first did.                      *)
(***************************************************************************)
C9_UpDownIdempotent ==
    /\ last.op = "arduinoUp" =>
           /\ ~Rec(last.target).arduinoDown
           /\ listeners[last.target] = 0
    /\ (last.op = "arduinoUp" /\ before.op = "arduinoUp"
            /\ before.target = last.target) =>
           /\ customState = pre.cs /\ stateHeap = pre.sh /\ attrHeap = pre.ah
           /\ listeners = pre.ls
           /\ calls = <<>> /\ redraws = 0
    /\ (last.op = "arduinoDown" /\ before.op = "arduinoDown"
            /\ before.target = last.target) =>
           /\ customState = pre.cs /\ stateHeap = pre.sh /\ attrHeap = pre.ah
           /\ listeners = pre.ls
           /\ Rec(last.target).arduinoDown
           /\ listeners[last.target] = 1

\* arduinoUp was called twice in a row on the same target, which has a record
\* with the trail disabled and no registration.
C9_Witness ==
    /\ last.op = "arduinoUp" /\ before.op = "arduinoUp"
    /\ before.target = last.target
    /\ HasState(last.target)
    /\ ~Rec(last.target).arduinoDown
    /\ listeners[last.target] = 0

(***************************************************************************)
(* C10: a target created from a source that has a record gets a deep copy  *)
(* of it (equal fields, no state or attributes object shared) and, when    *)
(* the copy has the trail enabled, one registration of the movement        *)
(* handler; a target created from a source without a record, or from no    *)
(* source, gets neither.  No two targets ever share an object, and an      *)
(* operation addressing one target leaves every other target's record as   *)
(* it was.                                                                 *)
(***************************************************************************)
C10_CloneIndependent ==
    /\ last.op = "targetWasCreated" =>
           LET b == last.target
               a == last.source
           IN IF a # Null /\ PreHasState(a)
              THEN /\ HasState(b)
                   /\ Rec(b) = PreRec(a)
                   /\ listeners[b] = IF PreRec(a).arduinoDown THEN 1 ELSE 0
                   /\ RecUnchanged(a)
              ELSE /\ ~HasState(b)
                   /\ listeners[b] = 0
    /\ \A t, u \in targets :
           (t # u /\ HasState(t) /\ HasState(u)) =>
               /\ customState[t] # customState[u]
               /\ stateHeap[customState[t]].arduinoAttributes
                      # stateHeap[customState[u]].arduinoAttributes
    /\ last.target # Null =>
           \A u \in targets \ {last.target} : RecUnchanged(u) /\ listeners[u] = pre.ls[u]

\* A clone of a trail-enabled target has had its colour changed: it is still
\* subscribed and the source's record differs from it.
C10_Witness ==
    /\ last.op = "setARduinoColorParamTo" /\ last.param = "color"
    /\ last.value = Num(30)
    /\ before.op = "targetWasCreated" /\ before.target = last.target
    /\ before.source # Null
    /\ listeners[last.target] = 1 /\ Rec(last.target).arduinoDown
    /\ Rec(last.target).color = Num(30)
    /\ Rec(before.source).color # Num(30)

(***************************************************************************)
(* C11: while the runtime has no renderer, clear, stamp, arduinoDown and   *)
(* a movement notification issue no renderer call and no redraw request    *)
(* and run to their end (no call is ever made on the absent renderer);     *)
(* arduinoDown still enables the trail and registers the handler, and      *)
(* every record is otherwise as it was.  With the renderer attached, the   *)
(* first of these operations creates the skin and the drawable, binds      *)
(* them, and then issues its draw and one redraw request.                  *)
(***************************************************************************)
RendererOps == {"clear", "stamp", "arduinoDown", "targetMoved"}

\* The three calls by which the layer is created.
LayerCreation ==
    << [fn |-> "createARduinoSkin", args |-> <<>>],
       [fn |-> "createDrawable", args |-> <<"ARDUINO_LAYER">>],
       [fn |-> "updateDrawableProperties",
        args |-> <<_arduinoDrawableId, _arduinoSkinId>>] >>

\* The draw that the last operation is to issue.
DrawOfLast ==
    LET t == last.target
    IN CASE last.op = "clear" -> [fn |-> "arduinoClear", args |-> <<_arduinoSkinId>>]
         [] last.op = "stamp" -> [fn |-> "arduinoStamp", args |-> <<_arduinoSkinId, t>>]
         [] last.op = "arduinoDown" ->
                [fn |-> "arduinoPoint",
                 args |-> <<_arduinoSkinId, Rec(t).arduinoAttributes,
                            pos[t][1], pos[t][2]>>]
         [] last.op = "targetMoved" ->
                [fn |-> "arduinoLine",
                 args |-> <<_arduinoSkinId, Rec(t).arduinoAttributes,
                            last.from[1], last.from[2], pos[t][1], pos[t][2]>>]

C11_RendererUnavailable ==
    /\ (calls # <<>> => renderer)
    /\ (last.op \in RendererOps /\ ~renderer) =>
           /\ calls = <<>> /\ redraws = 0
           /\ _arduinoSkinId < 0 /\ _arduinoDrawableId < 0
           /\ skins = 0 /\ drawables = 0
           /\ IF last.op = "arduinoDown"
              THEN LET t == last.target
                   IN /\ HasState(t)
                      /\ Rec(t) = [PreRecOrDefault(t) EXCEPT !.arduinoDown = TRUE]
                      /\ listeners[t] = 1
                      /\ \A u \in targets \ {t} :
                             RecUnchanged(u) /\ listeners[u] = pre.ls[u]
              ELSE /\ \A u \in targets : RecUnchanged(u)
                   /\ listeners = pre.ls
    /\ (/\ last.op \in RendererOps /\ renderer /\ pre.skinId < 0
        /\ last.op = "targetMoved" => (~last.force /\ pre.ls[last.target] = 1)) =>
           /\ _arduinoSkinId >= 0 /\ _arduinoDrawableId >= 0
           /\ calls = LayerCreation \o <<DrawOfLast>>
           /\ redraws = 1

\* The trail was enabled while there was no renderer, the renderer was
\* attached, and the move that followed created the layer and drew its line.
C11_Witness ==
    /\ last.op = "targetMoved" /\ ~last.force
    /\ before.op = "attachRenderer"
    /\ pre.skinId < 0 /\ pre.calls = <<>>
    /\ PreHasState(last.target) /\ PreRec(last.target).arduinoDown
    /\ pre.ls[last.target] = 1
    /\ Len(calls) = 4 /\ calls[4].fn = "arduinoLine"
    /\ _arduinoSkinId = 0

\* What persists from one operation to the next: the targets' records and
\* registrations, the extension's ids and what the renderer has allocated.
Persistent(W) ==
    <<W.cs, W.sh, W.ah, W.ls, W.skinId, W.drawableId, W.skins, W.drawables>>

(***************************************************************************)
(* C12 as the claim states it: clear issues the one arduinoClear when the  *)
(* skin exists before the call and no renderer call at all when it does    *)
(* not; it changes no record, and a second clear in a row changes nothing. *)
(***************************************************************************)
C12_ClearNoSkinSilent ==
    last.op = "clear" =>
        /\ IF pre.skinId >= 0
           THEN /\ calls = << [fn |-> "arduinoClear", args |-> <<pre.skinId>>] >>
                /\ redraws = 1
           ELSE /\ calls = <<>>
                /\ redraws = 0
        /\ \A u \in targets : RecUnchanged(u)
        /\ before.op = "clear" => Persistent(World) = Persistent(pre)

(***************************************************************************)
(* C12 amended: clear issues the one arduinoClear and one redraw request   *)
(* when the skin exists before the call; when it does not, clear is silent *)
(* only while there is no renderer, and with the renderer attached it      *)
(* creates the skin and the drawable, binds them, and then clears.  In     *)
(* every case it changes no record and no registration, and a second clear *)
(* in a row changes nothing.                                               *)
(***************************************************************************)
C12_ClearCreatesLayer ==
    last.op = "clear" =>
        /\ IF pre.skinId >= 0
           THEN /\ calls = << [fn |-> "arduinoClear", args |-> <<pre.skinId>>] >>
                /\ redraws = 1
                /\ Persistent(World) = Persistent(pre)
           ELSE IF ~renderer
           THEN /\ calls = <<>>
                /\ redraws = 0
                /\ Persistent(World) = Persistent(pre)
           ELSE /\ calls = LayerCreation
                            \o << [fn |-> "arduinoClear", args |-> <<_arduinoSkinId>>] >>
                /\ redraws = 1
                /\ _arduinoSkinId >= 0 /\ _arduinoDrawableId >= 0
        /\ \A u \in targets : RecUnchanged(u)
        /\ listeners = pre.ls
        /\ before.op = "clear" => Persistent(World) = Persistent(pre)

\* clear was called with the renderer attached and no skin yet, for a target
\* with its trail enabled: it created the layer and cleared it.
C12_Witness ==
    /\ last.op = "clear" /\ renderer
    /\ pre.skinId < 0 /\ _arduinoSkinId >= 0
    /\ Len(calls) = 4 /\ calls[4].fn = "arduinoClear"
    /\ redraws = 1
    /\ \E t \in targets : HasState(t) /\ Rec(t).arduinoDown /\ RecUnchanged(t)

\* The legacy recompute on a record: the fully saturated, fully bright colour
\* of the hue, mixed from black or towards white by the folded shade, written
\* back as color, saturation and brightness, and rgba derived again.
LegacyRecompute(st) ==
    LET base == hsvToRgb([h |-> (st.color * 36) \div 10, s |-> Num(1), v |-> Num(1)])
        effectiveShade == IF st._shade > Num(100) THEN Num(200) - st._shade
                                                  ELSE st._shade
        mixed == IF effectiveShade < Num(50)
                 THEN mixRgb(RGB_BLACK, base, (Num(10) + effectiveShade) \div 60)
                 ELSE mixRgb(base, RGB_WHITE, (effectiveShade - Num(50)) \div 60)
        hsv == rgbToHsv(mixed)
        st1 == [st EXCEPT !.color = (hsv.h * 10) \div 36,
                          !.saturation = hsv.s * 100,
                          !.brightness = hsv.v * 100]
    IN [st1 EXCEPT !.arduinoAttributes.color4f = DerivedRgba(st1)]

(***************************************************************************)
(* C13: setARduinoHueToNumber(h) leaves the record that the legacy         *)
(* recompute makes of the old record with color = h/2 modulo 100 and       *)
(* transparency = 0; changeARduinoHueBy(d) leaves the record that the      *)
(* legacy recompute makes of the old record with color = (color + d/2)     *)
(* modulo 100, its transparency as it was.  Neither changes _shade, the    *)
(* diameter, arduinoDown or a registration.                                *)
(***************************************************************************)
C13_HueOps ==
    /\ last.op = "setARduinoHueToNumber" =>
           LET t == last.target
               old == PreRecOrDefault(t)
           IN /\ Rec(t) = LegacyRecompute(
                              [old EXCEPT !.color = (last.value \div 2) % Num(100),
                                          !.transparency = Num(0)])
              /\ Rec(t).transparency = Num(0)
    /\ last.op = "changeARduinoHueBy" =>
           LET t == last.target
               old == PreRecOrDefault(t)
           IN /\ Rec(t) = LegacyRecompute(
                              [old EXCEPT !.color =
                                  (old.color + (last.value \div 2)) % Num(100)])
              /\ Rec(t).transparency = old.transparency
    /\ last.op \in {"setARduinoHueToNumber", "changeARduinoHueBy"} =>
           LET t == last.target
               old == PreRecOrDefault(t)
           IN /\ Rec(t)._shade = old._shade
              /\ Rec(t).arduinoAttributes.diameter = old.arduinoAttributes.diameter
              /\ Rec(t).arduinoDown = old.arduinoDown
              /\ listeners = pre.ls

\* The transparency was set to 30, a hue change by 250 kept it, and setting
\* the hue to -10 then reset it.
C13_Witness ==
    /\ last.op = "setARduinoHueToNumber" /\ last.value = Num(-10)
    /\ before.op = "changeARduinoHueBy" /\ before.value = Num(250)
    /\ before.target = last.target
    /\ PreRec(last.target).transparency = Num(30)
    /\ Rec(last.target).transparency = Num(0)
    /\ Rec(last.target).color # PreRec(last.target).color

(***************************************************************************)
(* C14: setARduinoShadeToNumber(s) stores _shade = s modulo 200, in        *)
(* [0, 200) (250 gives 50, -10 gives 190), and leaves the record that the  *)
(* legacy recompute makes of the old record with that _shade;              *)
(* changeARduinoShadeBy(d) leaves the record that setARduinoShadeToNumber  *)
(* of the stored _shade + d leaves, whatever color, saturation and         *)
(* brightness are.                                                         *)
(***************************************************************************)
C14_ShadeOps ==
    /\ last.op = "setARduinoShadeToNumber" =>
           LET t == last.target
               old == PreRecOrDefault(t)
           IN /\ Rec(t)._shade = last.value % Num(200)
              /\ Num(0) <= Rec(t)._shade /\ Rec(t)._shade < Num(200)
              /\ last.value = Num(250) => Rec(t)._shade = Num(50)
              /\ last.value = Num(-10) => Rec(t)._shade = Num(190)
              /\ Rec(t) = LegacyRecompute([old EXCEPT !._shade = last.value % Num(200)])
    /\ last.op = "changeARduinoShadeBy" =>
           LET t == last.target
               old == PreRecOrDefault(t)
           IN /\ Rec(t)._shade = (old._shade + last.value) % Num(200)
              /\ Rec(t) = LegacyRecompute(
                              [old EXCEPT !._shade = (old._shade + last.value) % Num(200)])
    /\ last.op \in {"setARduinoShadeToNumber", "changeARduinoShadeBy"} =>
           /\ listeners = pre.ls
           /\ \A u \in targets \ {last.target} : RecUnchanged(u)

\* The brightness was set to 30 while _shade stayed 50: the shade change by
\* -10 that followed left _shade = 40, where half the brightness would have
\* given 5.
C14_Witness ==
    /\ last.op = "changeARduinoShadeBy" /\ last.value = Num(-10)
    /\ before.op = "setARduinoColorParamTo" /\ before.param = "brightness"
    /\ before.value = Num(30) /\ before.target = last.target
    /\ PreRec(last.target).brightness = Num(30)
    /\ PreRec(last.target)._shade = Num(50)
    /\ Rec(last.target)._shade = Num(40)

\* a and b differ by less than a tenth: the resolution that a quotient by 360
\* has once it is multiplied by 100.
WithinTenth(a, b) == a - b < Scale \div 10 /\ b - a < Scale \div 10

TrailEnabled(t) == HasState(t) /\ Rec(t).arduinoDown
PreTrailEnabled(t) == PreHasState(t) /\ PreRec(t).arduinoDown

(***************************************************************************)
(* C16: in every reachable state a target has one registration of the      *)
(* movement handler when it has a record with arduinoDown true, and none   *)
(* otherwise.  So a movement of a target whose trail is not enabled issues *)
(* no renderer call and no redraw request, and neither does a movement     *)
(* that follows the target's arduinoUp.                                    *)
(***************************************************************************)
C16_ListenerIffDown ==
    /\ \A t \in Targets : listeners[t] = IF TrailEnabled(t) THEN 1 ELSE 0
    /\ \A t \in Targets \ targets : ~HasState(t)
    /\ (last.op = "targetMoved" /\ ~PreTrailEnabled(last.target)) =>
           /\ calls = <<>> /\ redraws = 0
           /\ Persistent(World) = Persistent(pre)
    /\ (last.op = "targetMoved" /\ before.op = "arduinoUp"
            /\ before.target = last.target) =>
           /\ calls = <<>> /\ redraws = 0
    /\ last.op = "arduinoUp" => ~TrailEnabled(last.target)

\* Target 1 enabled its trail, target 2 was cloned from it, and target 1 then
\* disabled its trail: the clone alone is registered.
C16_Witness ==
    /\ last.op = "arduinoUp" /\ last.target = 1
    /\ before.op = "targetWasCreated" /\ before.source = 1 /\ before.target = 2
    /\ PreTrailEnabled(1)
    /\ ~TrailEnabled(1) /\ listeners[1] = 0
    /\ TrailEnabled(2) /\ listeners[2] = 1

\* The last operation reached _getARduinoLayerID: clear, stamp, arduinoDown,
\* or a movement that is not forced of a target with the handler registered.
AsksForLayer ==
    \/ last.op \in {"clear", "stamp", "arduinoDown"}
    \/ last.op = "targetMoved" /\ ~last.force /\ pre.ls[last.target] >= 1

CreationFns == {"createARduinoSkin", "createDrawable", "updateDrawableProperties"}

\* The calls of the last operation that create or bind the layer.
Creations == SelectSeq(calls, LAMBDA c : c.fn \in CreationFns)

(***************************************************************************)
(* C17: the renderer is asked for at most one skin and one drawable.  They *)
(* are created, once, by the first operation that asks for the layer while *)
(* the renderer is attached; an operation that finds the skin id assigned  *)
(* leaves both ids as they are and creates nothing.                        *)
(***************************************************************************)
C17_LayerCreatedOnce ==
    /\ skins <= 1 /\ drawables <= 1
    /\ IF _arduinoSkinId >= 0
       THEN skins = 1 /\ drawables = 1 /\ _arduinoDrawableId >= 0 /\ renderer
       ELSE skins = 0 /\ drawables = 0 /\ _arduinoDrawableId < 0
    /\ pre.skinId >= 0 =>
           /\ _arduinoSkinId = pre.skinId
           /\ _arduinoDrawableId = pre.drawableId
           /\ skins = pre.skins /\ drawables = pre.drawables
           /\ Creations = <<>>
    /\ (pre.skinId < 0 /\ _arduinoSkinId >= 0) =>
           /\ AsksForLayer /\ renderer
           /\ Creations = LayerCreation
    /\ (AsksForLayer /\ renderer) => _arduinoSkinId >= 0
    /\ ~(AsksForLayer /\ renderer) => Creations = <<>>

\* The layer existed after a stamp, and the arduinoDown that followed drew on
\* the same skin and created nothing.
C17_Witness ==
    /\ last.op = "arduinoDown" /\ before.op = "stamp"
    /\ steps = 3 /\ renderer
    /\ pre.skinId = 0 /\ pre.drawableId = 0
    /\ _arduinoSkinId = 0 /\ _arduinoDrawableId = 0
    /\ skins = 1 /\ drawables = 1
    /\ Len(calls) = 1 /\ calls[1].fn = "arduinoPoint" /\ calls[1].args[1] = 0

====
